---- MODULE Spec2Model ----
(***************************************************************************)
(* Expense ledger and settlement engine of Group_Expense_Tracking.         *)
(*                                                                         *)
(* The store is the MongoDB database behind server.js: the User collection *)
(* (debt, groups) and the Group collection (members, events with embedded  *)
(* transactions, the mongoose version key __v).  Every request handler is  *)
(* an async function: it runs atomically from one await to the next, and   *)
(* handlers of concurrent requests interleave at their awaits.  One action *)
(* of the model is one such segment: the store access awaited plus the     *)
(* synchronous code that follows it up to the next await or the response.  *)
(***************************************************************************)
EXTENDS Integers, Sequences, FiniteSets, TLC

(* ---- bounds ---------------------------------------------------------- *)
MaxUsers    == 2   \* users that may sign up
MaxGroups   == 1   \* groups that may be created
MaxRequests == 3   \* requests issued in one behaviour (signups excluded)
MaxTx       == 2   \* transactions in one submitted event
MaxAmount   == 2   \* largest submitted amount
MaxMembers  == 1   \* length of a submitted member list
MaxRows     == 3   \* rows ever inserted into the Transaction table
MaxWindows  == 2   \* receipt_upload.html windows

UserIds    == 1..MaxUsers
GroupIds   == 1..(MaxGroups + 1)      \* the last id is never allocated
ReqIds     == 1..MaxRequests
EventNames == {"trip"}
Timestamps == {1}
Reasons    == {"fuel"}
Amounts    == 1..MaxAmount

(* ---- documents (server.js:26-66) ------------------------------------- *)
\* A transaction as the client submits it and as groupSchema stores it.
\* Transactions with parties U, amounts A and submitted isPaid flags P.
TxInputs(U, A, P) ==
  [owedBy : U, owedTo : U, reason : Reasons, amount : A, timestamp : Timestamps,
   isPaid : P]

RECURSIVE SeqsUpTo(_, _)
SeqsUpTo(S, n) ==
  IF n = 0 THEN {<<>>}
  ELSE LET shorter == SeqsUpTo(S, n - 1)
       IN  shorter \cup {Append(s, x) : s \in {t \in shorter : Len(t) = n - 1}, x \in S}

\* Events of at most n such transactions.
EventInputs(U, A, P, n) ==
  [eventName : EventNames, transactions : SeqsUpTo(TxInputs(U, A, P), n)]
MemberInputs(U) == SeqsUpTo(U, MaxMembers)

NoDoc == [createdBy |-> 0, members |-> <<>>, events |-> <<>>, v |-> -1]
NoKey == [eventName |-> "", timestamp |-> 0, owedBy |-> 0, owedTo |-> 0]
NoHit == <<0, 0>>

KeyInputs(U) ==
  [eventName : EventNames, timestamp : Timestamps, owedBy : U, owedTo : U]


(* ---- state ------------------------------------------------------------ *)
VARIABLES
  users,       \* userIds of the User documents (server.js:80-92)
  debt,        \* User.debt of every user (server.js:41-44)
  userGroups,  \* User.groups of every user (server.js:34)
  groups,      \* the Group collection: groupId -> document (server.js:47-66)
  reqs,        \* the requests issued so far: arguments, position, response
  sql,         \* the MySQL database expense_tracker (schema.sql)
  page         \* the calls of uploadReceipt() in receipt_upload.html windows

vars == <<users, debt, userGroups, groups, reqs, sql, page>>

IdleReq ==
  [op |-> "idle", pc |-> "idle", status |-> 0, err |-> "", gid |-> 0,
   createdBy |-> 0, key |-> NoKey, members |-> <<>>, events |-> <<>>, doc |-> NoDoc,
   hit |-> NoHit, k |-> 0, applied |-> FALSE, userId |-> 0, body |-> <<>>]

Started(r)  == reqs[r].pc # "idle"
Done(r)     == reqs[r].pc = "done"
InFlight(r) == Started(r) /\ ~Done(r)
Quiescent   == \A r \in ReqIds : ~InFlight(r)

\* The request id a new request gets: ids are handed out in arrival order.
NewReq(r) == ~Started(r) /\ \A q \in ReqIds : q < r => Started(q)

\* res.status(...).send/json(...): the handler is over.
\* Of a finished request the model keeps the arguments, the transaction it
\* stopped at, how far its loop came, and the response; the document it read
\* is dropped.
Respond(rec, code) == [rec EXCEPT !.pc = "done", !.status = code, !.doc = NoDoc]

\* catch (err) { ... res.status(500) ... }
Throw(rec, why) == [Respond(rec, 500) EXCEPT !.err = why]

\* res.json(x): a response whose body a claim is about.
Reply(rec, code, x) == [Respond(rec, code) EXCEPT !.body = <<x>>]

(* ---- pure helpers ------------------------------------------------------ *)
RECURSIVE FlatTxs(_)
\* The transactions of a list of events in the order the nested for-of loops
\* visit them (server.js:175-176).
FlatTxs(events) ==
  IF events = <<>> THEN <<>>
  ELSE Head(events).transactions \o FlatTxs(Tail(events))

\* if (!owedBy || !amount) continue;  (server.js:178, 207)
Skipped(tx) == tx.owedBy = 0 \/ tx.amount = 0

RECURSIVE NextAccrual(_, _)
\* Position of the next transaction at or after k the accrual loop awaits on,
\* Len(txs) + 1 when the loop runs to its end.
NextAccrual(txs, k) ==
  IF k > Len(txs) THEN k
  ELSE IF Skipped(txs[k]) THEN NextAccrual(txs, k + 1)
  ELSE k

\* IncDebt with $set in place of $inc.
IncDebtSet(d, u, by) == IF u \in users THEN [d EXCEPT ![u] = by] ELSE d

\* User.updateOne({ userId }, { $inc: { debt: by } }): one atomic update of the
\* matching document, none when no user matches.
IncDebt(d, u, by) == IF u \in users THEN [d EXCEPT ![u] = @ + by] ELSE d

\* txn.timestamp?.toISOString() === timestamp && txn.owedBy === owedBy &&
\* txn.owedTo === owedTo  (server.js:285-287, 327-329)
KeyMatches(tx, key) ==
  /\ tx.timestamp = key.timestamp
  /\ tx.owedBy = key.owedBy
  /\ tx.owedTo = key.owedTo

\* Positions <<event, transaction>> of a document in loop order.
Positions(doc) ==
  UNION {{<<i, j>> : j \in 1..Len(doc.events[i].transactions)} :
           i \in 1..Len(doc.events)}

TxAt(doc, p) == doc.events[p[1]].transactions[p[2]]

Before(p, q) == p[1] < q[1] \/ (p[1] = q[1] /\ p[2] < q[2])

First(ps) == IF ps = {} THEN NoHit
             ELSE CHOOSE p \in ps : \A q \in ps : q = p \/ Before(p, q)

\* FindUnpaid going on after a match, up to the last one.
FindUnpaidLast(doc, key) ==
  LET ps == {p \in Positions(doc) :
               /\ doc.events[p[1]].eventName = key.eventName
               /\ KeyMatches(TxAt(doc, p), key)
               /\ ~TxAt(doc, p).isPaid}
  IN  IF ps = {} THEN NoHit
      ELSE CHOOSE p \in ps : \A q \in ps : q = p \/ Before(q, p)

\* FindUnpaid asking for a stored receipt as well.
FindUnpaidWithReceipt(doc, key) ==
  First({p \in Positions(doc) :
           /\ doc.events[p[1]].eventName = key.eventName
           /\ KeyMatches(TxAt(doc, p), key)
           /\ ~TxAt(doc, p).isPaid
           /\ "receipt" \in DOMAIN TxAt(doc, p)})

\* FindUnpaid with the !txn.isPaid test of line 330 left out.
FindUnpaidNoTest(doc, key) ==
  First({p \in Positions(doc) :
           /\ doc.events[p[1]].eventName = key.eventName
           /\ KeyMatches(TxAt(doc, p), key)})

\* The transaction the settlement loop stops at (server.js:323-343): the
\* first one, in document order, of an event named eventName that matches the
\* key and is not paid.
FindUnpaid(doc, key) ==
  First({p \in Positions(doc) :
           /\ doc.events[p[1]].eventName = key.eventName
           /\ KeyMatches(TxAt(doc, p), key)
           /\ ~TxAt(doc, p).isPaid})

\* The transaction the receipt loop stops at (server.js:281-296): as above
\* without the isPaid test.
FindTx(doc, key) ==
  First({p \in Positions(doc) :
           /\ doc.events[p[1]].eventName = key.eventName
           /\ KeyMatches(TxAt(doc, p), key)})

\* User.currency as POST /signup stored it (server.js:84); no handler writes
\* it afterwards.  The first user signs up with "INR", the others with "USD".
Currency(u) == IF u = 1 THEN "INR" ELSE "USD"

(* ---- the MySQL store (schema.sql) --------------------------------------- *)
\* The tables after schema.sql has run: User (its usernames, and the debt
\* column apart), `Group`, Event, Transaction and PaidTransaction, and the
\* auto_increment counter of Transaction.
EmptyDb ==
  [user |-> {}, debt |-> [u \in UserIds |-> 0], grp |-> {}, event |-> {},
   tx |-> {}, paid |-> {}, nextId |-> 1]

(* ---- receipt_upload.html ------------------------------------------------ *)
Windows == 1..MaxWindows

\* A window in which uploadReceipt() has not run: the key of its URL, the
\* request ids of its two fetches.
NewPage == [pc |-> "new", gid |-> 0, key |-> NoKey, up |-> 0, mark |-> 0]

(* ---- initial state ------------------------------------------------------ *)
Init ==
  /\ users = {}
  /\ debt = [u \in UserIds |-> 0]
  /\ userGroups = [u \in UserIds |-> <<>>]
  /\ groups = <<>>
  /\ reqs = [r \in ReqIds |-> IdleReq]
  /\ sql = EmptyDb
  /\ page = [w \in Windows |-> NewPage]

(* ---- POST /signup (server.js:79-94) ------------------------------------- *)
\* uuidv4() gives a fresh userId; debt defaults to 0, groups is [].
Signup ==
  /\ Cardinality(users) < MaxUsers
  /\ users' = users \cup {Cardinality(users) + 1}
  /\ UNCHANGED <<debt, userGroups, groups, reqs, sql, page>>


Range(f) == {f[x] : x \in DOMAIN f}

\* A step of a handler of server.js changes the record of its request; no
\* handler of server.js reaches the MySQL store.
SetReq(r, rec) == reqs' = [reqs EXCEPT ![r] = rec] /\ UNCHANGED <<sql, page>>

\* A group id that no group has: the target of requests on a missing group.
NoSuchGroup == MaxGroups + 1

\* What a client can name as groupId when it sends a request.
TargetGroups == DOMAIN groups \cup {NoSuchGroup}

\* The keys a client sends with groupId gid; a request on a missing group
\* never reads its key or its member list.
KeysFor(gid) == IF gid = NoSuchGroup THEN {NoKey} ELSE KeyInputs(users)

\* The events a client sends with groupId gid: the same for every group,
\* stored or not.
EventsFor(gid, E) == E
MembersFor(gid, M) == IF gid = NoSuchGroup THEN {<<>>} ELSE M

(* ---- POST /api/groups (server.js:155-190) ------------------------------- *)
\* uuidv4(): the groupIds already handed out are never handed out again.
AllocatedGids == {reqs[q].gid : q \in {x \in ReqIds : reqs[x].op = "CreateGroup"}} \ {0}

StartCreateGroup(r, M, E) ==
  /\ NewReq(r)
  /\ \/ \* a required field is missing: 400 (server.js:157-159)
        SetReq(r, Respond([IdleReq EXCEPT !.op = "CreateGroup"], 400))
     \/ \* the required fields are there and events is absent: events.map
        \* throws before anything is read of members, the catch answers 500
        \* (server.js:168, 186-188)
        \E createdBy \in users :
          SetReq(r, Throw([IdleReq EXCEPT !.op = "CreateGroup",
                                          !.createdBy = createdBy], "type"))
     \/ \* createdBy is the user logged in (make-group.html:84)
        \E createdBy \in users, members \in M, events \in SeqsUpTo(E, 1) :
          /\ Cardinality(AllocatedGids) < MaxGroups
          /\ SetReq(r, [IdleReq EXCEPT !.op = "CreateGroup", !.pc = "save",
                                       !.gid = Cardinality(AllocatedGids) + 1,
                                       !.createdBy = createdBy,
                                       !.members = members, !.events = events])
  /\ UNCHANGED <<users, debt, userGroups, groups>>

\* await newGroup.save()  (server.js:162-170)
CreateGroupSave(r) ==
  /\ reqs[r].op = "CreateGroup" /\ reqs[r].pc = "save"
  /\ groups' = groups @@ (reqs[r].gid :>
                 [createdBy |-> reqs[r].createdBy, members |-> reqs[r].members,
                  events |-> reqs[r].events, v |-> 0])
  /\ SetReq(r, [reqs[r] EXCEPT !.pc = "updateMany"])
  /\ UNCHANGED <<users, debt, userGroups>>

\* The accrual loop up to its next await, or the response after its end.
AccrualStep(rec, k, code) ==
  LET n == NextAccrual(FlatTxs(rec.events), k)
  IN  IF n > Len(FlatTxs(rec.events)) THEN Respond([rec EXCEPT !.k = n], code)
      ELSE [rec EXCEPT !.pc = "inc", !.k = n]

\* await User.updateMany({ userId: { $in: members } }, { $push: { groups } })
\* (server.js:171-174), then the loop of 175-184 up to its first await.
CreateGroupUpdateMany(r) ==
  /\ reqs[r].op = "CreateGroup" /\ reqs[r].pc = "updateMany"
  /\ userGroups' = [u \in UserIds |->
                      IF u \in users /\ u \in Range(reqs[r].members)
                      THEN Append(userGroups[u], reqs[r].gid) ELSE userGroups[u]]
  /\ SetReq(r, AccrualStep(reqs[r], 1, 201))
  /\ UNCHANGED <<users, debt, groups>>

\* await User.updateOne({ userId: owedBy }, { $inc: { debt: amount } })
\* (server.js:179-182), then the loop up to its next await or the 201.
CreateGroupInc(r) ==
  /\ reqs[r].op = "CreateGroup" /\ reqs[r].pc = "inc"
  /\ LET tx == FlatTxs(reqs[r].events)[reqs[r].k]
     IN  debt' = IncDebt(debt, tx.owedBy, tx.amount)
  /\ SetReq(r, AccrualStep(reqs[r], reqs[r].k + 1, 201))
  /\ UNCHANGED <<users, userGroups, groups>>

(* ---- POST /api/groups/:groupId/addEvent (server.js:192-218) ------------- *)
StartAddEvent(r, E) ==
  /\ NewReq(r)
  /\ \E gid \in TargetGroups : \E event \in EventsFor(gid, E) :
       SetReq(r, [IdleReq EXCEPT !.op = "AddEvent", !.pc = "find",
                                 !.gid = gid, !.events = <<event>>])
  /\ UNCHANGED <<users, debt, userGroups, groups>>

\* AddEventFind with the accrual loop entered before the group is looked at.
AddEventFindLate(r) ==
  /\ reqs[r].op = "AddEvent" /\ reqs[r].pc = "find"
  /\ IF reqs[r].gid \notin DOMAIN groups
     THEN SetReq(r, AccrualStep(reqs[r], 1, 404))
     ELSE SetReq(r, [reqs[r] EXCEPT !.pc = "save", !.doc = groups[reqs[r].gid]])
  /\ UNCHANGED <<users, debt, userGroups, groups>>

\* await Group.findOne({ groupId }), the 404, group.events.push(event)
\* (server.js:196-203)
AddEventFind(r) ==
  /\ reqs[r].op = "AddEvent" /\ reqs[r].pc = "find"
  /\ IF reqs[r].gid \notin DOMAIN groups
     THEN SetReq(r, Respond(reqs[r], 404))
     ELSE SetReq(r, [reqs[r] EXCEPT !.pc = "save", !.doc = groups[reqs[r].gid]])
  /\ UNCHANGED <<users, debt, userGroups, groups>>

\* PushEvent writing the whole events array of the document in memory.
PushEventWhole(g, doc, event) ==
  [g EXCEPT !.events = Append(doc.events, event), !.v = @ + 1]

\* await group.save() after a push: mongoose sends $push of the new element
\* and $inc of __v, with no condition on __v (server.js:203-204).
PushEvent(g, doc, event) == [g EXCEPT !.events = Append(@, event), !.v = @ + 1]

AddEventSave(r) ==
  /\ reqs[r].op = "AddEvent" /\ reqs[r].pc = "save"
  /\ groups' = [groups EXCEPT ![reqs[r].gid] = PushEvent(@, reqs[r].doc, reqs[r].events[1])]
  /\ SetReq(r, AccrualStep(reqs[r], 1, 200))
  /\ UNCHANGED <<users, debt, userGroups>>

\* await User.updateOne(... $inc ...) (server.js:208-211)
AddEventInc(r) ==
  /\ reqs[r].op = "AddEvent" /\ reqs[r].pc = "inc"
  /\ LET tx == FlatTxs(reqs[r].events)[reqs[r].k]
     IN  debt' = IncDebt(debt, tx.owedBy, tx.amount)
  /\ SetReq(r, AccrualStep(reqs[r], reqs[r].k + 1, 200))
  /\ UNCHANGED <<users, userGroups, groups>>


(* ---- POST /api/markTransactionPaid (server.js:310-355) ------------------ *)
StartMarkPaid(r) ==
  /\ NewReq(r)
  /\ \/ \* a field is missing: 400 (server.js:313-315)
        SetReq(r, Respond([IdleReq EXCEPT !.op = "MarkPaid"], 400))
     \/ \E gid \in TargetGroups : \E key \in KeysFor(gid) :
          SetReq(r, [IdleReq EXCEPT !.op = "MarkPaid", !.pc = "find",
                                    !.gid = gid, !.key = key])
  /\ UNCHANGED <<users, debt, userGroups, groups>>

\* txn.isPaid = true on the document in memory (server.js:332)
SetPaid(doc, p) == [doc EXCEPT !.events[p[1]].transactions[p[2]].isPaid = TRUE]

\* await Group.findOne({ groupId }), the 404s, and the loop of 323-343 up to
\* its await: the flag is set in memory, the debt update is about to be sent.
MarkPaidFind(r) ==
  /\ reqs[r].op = "MarkPaid" /\ reqs[r].pc = "find"
  /\ IF reqs[r].gid \notin DOMAIN groups
     THEN SetReq(r, Respond(reqs[r], 404))
     ELSE LET doc == groups[reqs[r].gid]
              hit == FindUnpaid(doc, reqs[r].key)
          IN  IF hit = NoHit
              THEN SetReq(r, Respond(reqs[r], 404))
              ELSE SetReq(r, [reqs[r] EXCEPT !.pc = "inc", !.hit = hit,
                                             !.doc = SetPaid(doc, hit)])
  /\ UNCHANGED <<users, debt, userGroups, groups>>

\* await User.updateOne({ userId: owedBy }, { $inc: { debt: -txn.amount } })
\* (server.js:333-338), then updated = true and both breaks.
MarkPaidInc(r) ==
  /\ reqs[r].op = "MarkPaid" /\ reqs[r].pc = "inc"
  /\ debt' = IncDebt(debt, reqs[r].key.owedBy, -TxAt(reqs[r].doc, reqs[r].hit).amount)
  /\ SetReq(r, [reqs[r] EXCEPT !.pc = "save", !.applied = TRUE])
  /\ UNCHANGED <<users, userGroups, groups>>

\* SavePaid writing the whole events array of the document in memory.
SavePaidWhole(g, doc, p) == [g EXCEPT !.events = doc.events]

\* group.save() of a document whose only modified path is
\* events.i.transactions.j.isPaid: mongoose sends $set of that path under the
\* condition that __v is still the one read, and leaves __v alone.
SavePaid(g, doc, p) == SetPaid(g, p)

\* await group.save() (server.js:349): the write, or the VersionError that
\* the catch turns into a 500.
MarkPaidSave(r) ==
  /\ reqs[r].op = "MarkPaid" /\ reqs[r].pc = "save"
  /\ IF groups[reqs[r].gid].v = reqs[r].doc.v
     THEN /\ groups' = [groups EXCEPT ![reqs[r].gid] = SavePaid(@, reqs[r].doc, reqs[r].hit)]
          /\ SetReq(r, Respond(reqs[r], 200))
     ELSE /\ SetReq(r, Throw(reqs[r], "version"))
          /\ UNCHANGED groups
  /\ UNCHANGED <<users, debt, userGroups>>

(* ---- POST /api/groups/:groupId/updateMembers (server.js:357-386) -------- *)
StartUpdateMembers(r, M) ==
  /\ NewReq(r)
  /\ \/ \* members is no array: 400 (server.js:367-369)
        SetReq(r, Respond([IdleReq EXCEPT !.op = "UpdateMembers"], 400))
     \/ \E gid \in TargetGroups : \E members \in MembersFor(gid, M) :
          SetReq(r, [IdleReq EXCEPT !.op = "UpdateMembers", !.pc = "find",
                                    !.gid = gid, !.members = members])
  /\ UNCHANGED <<users, debt, userGroups, groups>>

\* await Group.findOne({ groupId }), the 404, group.members = members
\* (server.js:372-378)
UpdateMembersFind(r) ==
  /\ reqs[r].op = "UpdateMembers" /\ reqs[r].pc = "find"
  /\ IF reqs[r].gid \notin DOMAIN groups
     THEN SetReq(r, Respond(reqs[r], 404))
     ELSE SetReq(r, [reqs[r] EXCEPT !.pc = "save", !.doc = groups[reqs[r].gid]])
  /\ UNCHANGED <<users, debt, userGroups, groups>>

\* SaveMembers writing the whole document in memory.
SaveMembersWhole(g, doc, members) == [doc EXCEPT !.members = members, !.v = g.v + 1]

\* SaveMembers adding the submitted users to the stored list.
SaveMembersMerge(g, doc, members) == [g EXCEPT !.members = @ \o members, !.v = @ + 1]

\* group.save() of a document whose only modified path is members: mongoose
\* sends $set of the whole array and $inc of __v.
SaveMembers(g, doc, members) == [g EXCEPT !.members = members, !.v = @ + 1]

\* await group.save() (server.js:379).  An assignment of an equal array marks
\* nothing modified and save() sends nothing; otherwise the update carries the
\* condition that __v is still the one read.
UpdateMembersSave(r) ==
  /\ reqs[r].op = "UpdateMembers" /\ reqs[r].pc = "save"
  /\ IF reqs[r].members = reqs[r].doc.members
     THEN /\ SetReq(r, Respond(reqs[r], 200))
          /\ UNCHANGED groups
     ELSE IF groups[reqs[r].gid].v = reqs[r].doc.v
     THEN /\ groups' = [groups EXCEPT ![reqs[r].gid] =
                          SaveMembers(@, reqs[r].doc, reqs[r].members)]
          /\ SetReq(r, Respond(reqs[r], 200))
     ELSE /\ SetReq(r, Throw(reqs[r], "version"))
          /\ UNCHANGED groups
  /\ UNCHANGED <<users, debt, userGroups>>

(* ---- POST /api/uploadReceiptOnly (server.js:267-308) -------------------- *)
StartAttachReceipt(r) ==
  /\ NewReq(r)
  /\ \/ \* a field or the file is missing: 400 (server.js:271-273)
        SetReq(r, Respond([IdleReq EXCEPT !.op = "AttachReceipt"], 400))
     \/ \E gid \in TargetGroups : \E key \in KeysFor(gid) :
          SetReq(r, [IdleReq EXCEPT !.op = "AttachReceipt", !.pc = "find",
                                    !.gid = gid, !.key = key])
  /\ UNCHANGED <<users, debt, userGroups, groups>>

\* await Group.findOne({ groupId }), the 404s, the loop of 281-296.
\* txn.receipt is no path of groupSchema: the assignment of line 289 sets a
\* property of the object in memory that save() does not send.
AttachReceiptFind(r) ==
  /\ reqs[r].op = "AttachReceipt" /\ reqs[r].pc = "find"
  /\ IF reqs[r].gid \notin DOMAIN groups
     THEN SetReq(r, Respond(reqs[r], 404))
     ELSE LET doc == groups[reqs[r].gid]
              hit == FindTx(doc, reqs[r].key)
          IN  IF hit = NoHit
              THEN SetReq(r, Respond(reqs[r], 404))
              ELSE SetReq(r, [reqs[r] EXCEPT !.pc = "save", !.hit = hit, !.doc = doc])
  /\ UNCHANGED <<users, debt, userGroups, groups>>

\* The transaction schema (server.js:57-64) has no receipt path: a stored
\* transaction has a receipt only if the record holds one.
NoReceipt == 0

Receipt(tx) == IF "receipt" \in DOMAIN tx THEN tx.receipt ELSE NoReceipt

\* `/uploads/${receiptPath}` (server.js:289): multer names the file of every
\* upload after the time of the request (server.js:258-262).
ReceiptRef(r) == r

\* SaveReceipt writing the whole document in memory.
SaveReceiptWhole(g, doc, p, ref) == doc

\* group.save() after txn.receipt = ref: no schema path is modified, save()
\* sends no update.
SaveReceipt(g, doc, p, ref) == g

\* await group.save() (server.js:302-303)
AttachReceiptSave(r) ==
  /\ reqs[r].op = "AttachReceipt" /\ reqs[r].pc = "save"
  /\ groups' = [groups EXCEPT ![reqs[r].gid] =
                  SaveReceipt(@, reqs[r].doc, reqs[r].hit, ReceiptRef(r))]
  /\ SetReq(r, Respond(reqs[r], 200))
  /\ UNCHANGED <<users, debt, userGroups>>

(* ---- storage failures ---------------------------------------------------- *)
\* The store access a handler awaits rejects (connection loss): nothing is
\* written and the handler's catch answers 500 (server.js:186-189, 214-217,
\* 304-307, 351-354, 382-385).
StorageFailure(r) ==
  /\ InFlight(r)
  /\ ~(reqs[r].op = "AttachReceipt" /\ reqs[r].pc = "save")
  /\ reqs[r].op # "Transactions"
  /\ SetReq(r, Throw(reqs[r], "storage"))
  /\ UNCHANGED <<users, debt, userGroups, groups>>

(* ---- specifications ------------------------------------------------------ *)
Step(r) ==
  \/ CreateGroupSave(r) \/ CreateGroupUpdateMany(r) \/ CreateGroupInc(r)
  \/ AddEventFind(r) \/ AddEventSave(r) \/ AddEventInc(r)
  \/ MarkPaidFind(r) \/ MarkPaidInc(r) \/ MarkPaidSave(r)
  \/ UpdateMembersFind(r) \/ UpdateMembersSave(r)
  \/ AttachReceiptFind(r) \/ AttachReceiptSave(r)

Start(r, M, E) ==
  \/ StartCreateGroup(r, M, E) \/ StartAddEvent(r, E) \/ StartMarkPaid(r)
  \/ StartUpdateMembers(r, M) \/ StartAttachReceipt(r)

\* Every handler, concurrent requests, storage failures; events of at most
\* one transaction, submitted unpaid as the shipped pages do
\* (make-group.html:96, group.html:149).
Next ==
  \/ Signup
  \/ \E r \in ReqIds : Start(r, MemberInputs(users), EventInputs(users, {MaxAmount}, {FALSE}, 1))
  \/ \E r \in ReqIds : Step(r)
  \/ \E r \in ReqIds : StorageFailure(r)

Spec == Init /\ [][Next]_vars

\* Every handler, one request at a time, no storage failure; events of at
\* most one transaction, with any submitted isPaid flag.
NextSerial ==
  \/ Signup
  \/ \E r \in ReqIds : Quiescent /\ Start(r, MemberInputs(users), EventInputs(users, Amounts, BOOLEAN, 1))
  \/ \E r \in ReqIds : Step(r)

SpecSerial == Init /\ [][NextSerial]_vars

\* Group creation and settlement only, concurrent requests, storage
\* failures; events of up to MaxTx transactions.
NextSettle ==
  \/ Signup
  \/ \E r \in ReqIds : StartCreateGroup(r, {<<>>}, EventInputs(users, Amounts, {FALSE}, MaxTx))
  \/ \E r \in ReqIds : StartMarkPaid(r)
  \/ \E r \in ReqIds :
       \/ CreateGroupSave(r) \/ CreateGroupUpdateMany(r) \/ CreateGroupInc(r)
       \/ MarkPaidFind(r) \/ MarkPaidInc(r) \/ MarkPaidSave(r)
  \/ \E r \in ReqIds : StorageFailure(r)

SpecSettle == Init /\ [][NextSettle]_vars

(* ---- the MySQL store: triggers and foreign keys (schema.sql) -------------- *)
\* trigger after_transaction_insert (schema.sql:80-87)
AfterTransactionInsert(db, new) ==
  IF new.owed_by \in db.user
  THEN [db EXCEPT !.debt[new.owed_by] = @ + new.amount] ELSE db

\* trigger after_transaction_paid (schema.sql:89-103): the debt of owed_by
\* goes down and a PaidTransaction row is inserted with the currency of
\* owed_by and new.timestamp as payment_timestamp.
AfterTransactionPaid(db, old, new) ==
  IF new.is_paid /\ ~old.is_paid
  THEN [db EXCEPT !.debt[new.owed_by] = @ - new.amount,
                  !.paid = @ \cup {[transaction_id |-> new.transaction_id,
                                    amount |-> new.amount,
                                    currency |-> Currency(new.owed_by),
                                    owed_by |-> new.owed_by, owed_to |-> new.owed_to,
                                    reason |-> new.reason,
                                    payment_timestamp |-> new.timestamp]}]
  ELSE db

\* DeleteCascade with the foreign key of Transaction on Event left without
\* its cascade: the rows of Transaction and PaidTransaction stay.
DeleteCascadeEventsOnly(db, g) ==
  [db EXCEPT !.grp = @ \ {g}, !.event = {e \in @ : e[1] # g}]

\* delete from `Group` where group_name = g, with the cascades of the foreign
\* keys: Event on `Group` (schema.sql:40), Transaction on Event (55),
\* PaidTransaction on Transaction (69).  A cascade fires no trigger.
DeleteCascade(db, g) ==
  LET gone == {t \in db.tx : t.group_name = g}
  IN  [db EXCEPT !.grp = @ \ {g},
                 !.event = {e \in @ : e[1] # g},
                 !.tx = @ \ gone,
                 !.paid = {p \in @ : p.transaction_id \notin
                                        {t.transaction_id : t \in gone}}]

(* ---- the MySQL store: statements ------------------------------------------ *)
\* The statements come from the operations of the ledger; their callers are
\* not part of the sources at hand.  Each statement runs with its triggers
\* and cascades as one step.
SqlStep(db) == sql' = db /\ UNCHANGED <<users, debt, userGroups, groups, reqs, page>>

\* insert into User: debt defaults to 0.00 (schema.sql:6-14)
SqlSignup(u) ==
  /\ u \notin sql.user
  /\ SqlStep([sql EXCEPT !.user = @ \cup {u}])

\* insert into `Group`: group_name is the primary key, created_by refers to
\* User (schema.sql:16-22)
SqlCreateGroup(g, by) ==
  /\ g \notin sql.grp /\ by \in sql.user
  /\ SqlStep([sql EXCEPT !.grp = @ \cup {g}])

\* insert into Event: (group_name, event_name) is the primary key, group_name
\* refers to `Group` (schema.sql:32-41)
SqlAddEvent(g, e) ==
  /\ g \in sql.grp /\ <<g, e>> \notin sql.event
  /\ SqlStep([sql EXCEPT !.event = @ \cup {<<g, e>>}])

\* insert into Transaction: the foreign keys must hold, transaction_id is the
\* next auto_increment value, is_paid takes its default (schema.sql:43-58)
SqlAddTransaction(g, e, tx) ==
  /\ sql.nextId <= MaxRows
  /\ <<g, e>> \in sql.event /\ tx.owedBy \in sql.user /\ tx.owedTo \in sql.user
  /\ LET new == [transaction_id |-> sql.nextId, group_name |-> g, event_name |-> e,
                 owed_by |-> tx.owedBy, owed_to |-> tx.owedTo, amount |-> tx.amount,
                 reason |-> tx.reason, timestamp |-> tx.timestamp, is_paid |-> FALSE]
     IN  SqlStep(AfterTransactionInsert(
                   [sql EXCEPT !.tx = @ \cup {new}, !.nextId = @ + 1], new))

\* update Transaction set is_paid = true where transaction_id = id
SqlMarkPaid(id) ==
  \E old \in sql.tx :
     /\ old.transaction_id = id
     /\ LET new == [old EXCEPT !.is_paid = TRUE]
        IN  SqlStep(AfterTransactionPaid(
                      [sql EXCEPT !.tx = (@ \ {old}) \cup {new}], old, new))

\* delete from `Group` where group_name = g
SqlDeleteGroup(g) ==
  /\ g \in sql.grp
  /\ SqlStep(DeleteCascade(sql, g))

NextSql ==
  \/ \E u \in UserIds : SqlSignup(u)
  \/ \E g \in GroupIds, by \in UserIds : SqlCreateGroup(g, by)
  \/ \E g \in GroupIds, e \in EventNames : SqlAddEvent(g, e)
  \/ \E g \in GroupIds, e \in EventNames, tx \in TxInputs(UserIds, Amounts, {FALSE}) :
        SqlAddTransaction(g, e, tx)
  \/ \E id \in 1..MaxRows : SqlMarkPaid(id)
  \/ \E g \in GroupIds : SqlDeleteGroup(g)

SpecSql == Init /\ [][NextSql]_vars

(* ---- derived views of the store ------------------------------------------ *)
RECURSIVE StoredTxs(_)
\* The stored transactions of the groups with ids 1..g, in document order.
StoredTxs(g) ==
  IF g = 0 THEN <<>>
  ELSE StoredTxs(g - 1) \o (IF g \in DOMAIN groups THEN FlatTxs(groups[g].events) ELSE <<>>)

RECURSIVE SumUnpaid(_, _)
\* sum(amount for t in txs where t.owedBy == u and not t.isPaid)
SumUnpaid(txs, u) ==
  IF txs = <<>> THEN 0
  ELSE (IF Head(txs).owedBy = u /\ ~Head(txs).isPaid THEN Head(txs).amount ELSE 0)
       + SumUnpaid(Tail(txs), u)

Owed(u) == SumUnpaid(StoredTxs(MaxGroups), u)

MarkPaidReqs == {r \in ReqIds : reqs[r].op = "MarkPaid"}

\* The stored transaction a settlement request stopped at.
Target(r) == TxAt(groups[reqs[r].gid], reqs[r].hit)

(* ---- C1 ------------------------------------------------------------------ *)
\* C1 (debt invariant I1): in every quiescent state, the stored debt of every
\* user equals the sum of the amounts of the stored unpaid transactions the
\* user owes.
C1_DebtInvariant ==
  Quiescent => \A u \in users : debt[u] = Owed(u)

(* ---- C2 ------------------------------------------------------------------ *)
\* C2 (concurrent settlement of one transaction): of the settlement requests
\* that stopped at the same stored transaction at most one answers 200, and
\* the debt update is applied at most once for that transaction.
C2_OneSettlementWins ==
  \A a, b \in MarkPaidReqs :
     (a # b /\ reqs[a].gid = reqs[b].gid /\ reqs[a].hit # NoHit
            /\ reqs[a].hit = reqs[b].hit)
     => /\ ~(reqs[a].status = 200 /\ reqs[b].status = 200)
        /\ ~(reqs[a].applied /\ reqs[b].applied)

(* ---- C3 ------------------------------------------------------------------ *)
\* C3 (atomicity I2, visibility): no state of the store shows the debt
\* decrement of a settlement request while the transaction it settles is
\* still stored unpaid.
C3_NoIntermediateState ==
  \A r \in MarkPaidReqs : reqs[r].applied => Target(r).isPaid


(* ---- bookkeeping over the requests ---------------------------------------- *)
RECURSIVE SumOwed(_, _)
\* sum(amount for t in txs where t.owedBy == u)
SumOwed(txs, u) ==
  IF txs = <<>> THEN 0
  ELSE (IF Head(txs).owedBy = u THEN Head(txs).amount ELSE 0) + SumOwed(Tail(txs), u)

StoredTotal(u) == SumOwed(StoredTxs(MaxGroups), u)

CreationReqs == {r \in ReqIds : reqs[r].op \in {"CreateGroup", "AddEvent"}}

\* The accruals a creation request has had applied: those its loop has passed.
Accrued(r, u) ==
  IF reqs[r].op \in {"CreateGroup", "AddEvent"} /\ reqs[r].k > 1
  THEN SumOwed(SubSeq(FlatTxs(reqs[r].events), 1, reqs[r].k - 1), u)
  ELSE 0

\* The decrement a settlement request has had applied.
Settled(r, u) ==
  IF reqs[r].op = "MarkPaid" /\ reqs[r].applied /\ reqs[r].key.owedBy = u
  THEN Target(r).amount ELSE 0

RECURSIVE AccruedUpTo(_, _)
AccruedUpTo(n, u) == IF n = 0 THEN 0 ELSE AccruedUpTo(n - 1, u) + Accrued(n, u)

RECURSIVE SettledUpTo(_, _)
SettledUpTo(n, u) == IF n = 0 THEN 0 ELSE SettledUpTo(n - 1, u) + Settled(n, u)

\* The accruals and the decrements applied to the debt of user u so far.
AccruedBy(u) == AccruedUpTo(MaxRequests, u)
SettledBy(u) == SettledUpTo(MaxRequests, u)

\* The stored transactions of group g that a key names.
Named(g, key) ==
  {p \in Positions(groups[g]) :
     /\ groups[g].events[p[1]].eventName = key.eventName
     /\ KeyMatches(TxAt(groups[g], p), key)}

(* ---- C4 ------------------------------------------------------------------ *)
\* C4 (sequential idempotence): when two settlement calls for the key of one
\* transaction t run one after the other and the first answers 200, the
\* second answers 404 and applies no debt update, t is stored paid, and the
\* debt of every user is the total accrued minus the one decrement applied.
C4_SettleOnce ==
  \A a, b \in MarkPaidReqs :
     (/\ a < b /\ Done(a) /\ Done(b)
      /\ reqs[a].status = 200
      /\ reqs[a].gid = reqs[b].gid /\ reqs[a].key = reqs[b].key
      /\ Cardinality(Named(reqs[a].gid, reqs[a].key)) = 1)
     => /\ reqs[b].status = 404
        /\ ~reqs[b].applied
        /\ Target(a).isPaid
        /\ \A u \in users : debt[u] = StoredTotal(u) - SettledBy(u)

C4_Witness ==
  \E a, b \in MarkPaidReqs :
     /\ a < b /\ Done(a) /\ Done(b)
     /\ reqs[a].status = 200 /\ reqs[b].status = 404
     /\ reqs[a].gid = reqs[b].gid /\ reqs[a].key = reqs[b].key
     /\ Cardinality(Named(reqs[a].gid, reqs[a].key)) = 1
     /\ Target(a).amount = MaxAmount
     /\ debt[reqs[a].key.owedBy] = 0


(* ---- C5 ------------------------------------------------------------------ *)
\* C5 (monotonic paid state I3): a stored transaction that is paid is still
\* stored, at the same place, and paid after every step of every request.
C5_PaidStaysPaid ==
  [][\A g \in DOMAIN groups : \A p \in Positions(groups[g]) :
       TxAt(groups[g], p).isPaid =>
         /\ g \in DOMAIN groups'
         /\ p \in Positions(groups'[g])
         /\ TxAt(groups'[g], p).isPaid]_vars

\* A settled transaction whose group another request has written since it
\* read the group.
C5_Witness ==
  \E r \in MarkPaidReqs : \E q \in ReqIds :
     /\ reqs[r].status = 200 /\ Target(r).isPaid
     /\ reqs[q].op \in {"UpdateMembers", "AddEvent"} /\ reqs[q].gid = reqs[r].gid
     /\ reqs[q].status = 200
     /\ groups[reqs[r].gid].v > 0

(* ---- C6 ------------------------------------------------------------------ *)
\* C6 (failure atomicity): a settlement request that ends without success
\* has applied no debt update.
C6_FailedSettlementLeavesDebt ==
  \A r \in MarkPaidReqs :
     (Done(r) /\ reqs[r].status # 200) => ~reqs[r].applied

(* ---- C7 ------------------------------------------------------------------ *)
\* C7 (accrual R1): as long as nothing has been settled, in every quiescent
\* state the events of every successful CreateGroup and AddEvent are stored
\* in their group and the debt of every user is the sum of the amounts of all
\* stored transactions the user owes: each was accrued exactly once.
C7_AccruedOnce ==
  (Quiescent /\ \A r \in MarkPaidReqs : ~reqs[r].applied) =>
     /\ \A r \in CreationReqs :
          reqs[r].status \in {200, 201} =>
            \A i \in DOMAIN reqs[r].events :
               \E j \in DOMAIN groups[reqs[r].gid].events :
                  groups[reqs[r].gid].events[j] = reqs[r].events[i]
     /\ \A u \in users : debt[u] = StoredTotal(u)

\* A group created with a transaction and extended by an event with another
\* one of the same debtor.
C7_Witness ==
  /\ Quiescent
  /\ \A r \in MarkPaidReqs : ~reqs[r].applied
  /\ \E a, b \in CreationReqs : \E u \in users :
        /\ reqs[a].op = "CreateGroup" /\ reqs[a].status = 201
        /\ reqs[b].op = "AddEvent" /\ reqs[b].status = 200
        /\ Accrued(a, u) > 0 /\ Accrued(b, u) > 0
        /\ debt[u] = Accrued(a, u) + Accrued(b, u)

(* ---- C8 ------------------------------------------------------------------ *)
\* C8 (no lost update on the aggregate): the debt of every user is the sum of
\* the accruals applied minus the sum of the decrements applied, a settlement
\* that answered 200 has its transaction stored paid, and a settlement that
\* found its transaction fails only when the store rejects an access.
C8_NoLostUpdate ==
  /\ \A u \in users : debt[u] = AccruedBy(u) - SettledBy(u)
  /\ \A r \in MarkPaidReqs : reqs[r].status = 200 => Target(r).isPaid
  /\ \A r \in MarkPaidReqs :
        (Done(r) /\ reqs[r].hit # NoHit) => (reqs[r].status = 200 \/ reqs[r].err = "storage")

\* Two settlements of different transactions of amounts 1 and 2 owed by the
\* same user that overlapped in time, both answered 200.
C8_Witness ==
  \E a, b \in MarkPaidReqs :
     /\ a # b /\ reqs[a].status = 200 /\ reqs[b].status = 200
     /\ reqs[a].gid = reqs[b].gid /\ reqs[a].hit # reqs[b].hit
     /\ reqs[a].key.owedBy = reqs[b].key.owedBy
     /\ Target(a).amount = 1 /\ Target(b).amount = 2
     /\ SettledBy(reqs[a].key.owedBy) = 3
     /\ debt[reqs[a].key.owedBy] = 0

(* ---- C9 ------------------------------------------------------------------ *)
\* C9 (membership independence I4): a step of an UpdateMembers request
\* changes no debt, no group list of a user, no group but its own, and no
\* event or transaction of any group: of its own group it changes at most
\* the members and the version key.
C9_MembersOnly ==
  [][\A r \in ReqIds :
       (reqs'[r].op = "UpdateMembers" /\ reqs'[r] # reqs[r]) =>
          /\ debt' = debt /\ userGroups' = userGroups /\ users' = users
          /\ DOMAIN groups' = DOMAIN groups
          /\ \A g \in DOMAIN groups :
               /\ groups'[g].events = groups[g].events
               /\ g # reqs'[r].gid => groups'[g] = groups[g]]_vars

\* A member list replaced by one without the debtor of an unpaid transaction,
\* next to a settlement request that read the group before the replacement.
C9_Witness ==
  \E r \in ReqIds : \E q \in MarkPaidReqs :
     /\ reqs[r].op = "UpdateMembers" /\ reqs[r].status = 200
     /\ reqs[q].gid = reqs[r].gid /\ reqs[q].hit # NoHit
     /\ groups[reqs[r].gid].v = 1
     /\ reqs[q].pc = "done" /\ reqs[q].err = "version"
     /\ reqs[q].key.owedBy \notin Range(groups[reqs[r].gid].members)
     /\ ~Target(q).isPaid


(* ---- GET /api/transactions (server.js:220-250) ---------------------------- *)
\* txn.owedBy === userId || txn.owedTo === userId
Involves(tx, u) == tx.owedBy = u \/ tx.owedTo = u

\* The object pushed to result (server.js:236-243); groupSchema has no
\* currency, so group.currency || "INR" is "INR".
Entry(tx) ==
  [amount |-> tx.amount, owedBy |-> tx.owedBy, owedTo |-> tx.owedTo,
   reason |-> tx.reason, currency |-> "INR", paymentTimestamp |-> tx.timestamp]

RECURSIVE HistoryEntriesAll(_, _)
\* HistoryEntries with the txn.isPaid test of line 235 left out.
HistoryEntriesAll(txs, u) ==
  IF txs = <<>> THEN <<>>
  ELSE (IF Involves(Head(txs), u) THEN <<Entry(Head(txs))>> ELSE <<>>)
       \o HistoryEntriesAll(Tail(txs), u)

RECURSIVE HistoryEntries(_, _)
\* The forEach loops of 232-247 over the transactions of one group.
HistoryEntries(txs, u) ==
  IF txs = <<>> THEN <<>>
  ELSE (IF Head(txs).isPaid /\ Involves(Head(txs), u) THEN <<Entry(Head(txs))>> ELSE <<>>)
       \o HistoryEntries(Tail(txs), u)

\* HasPaidOf with the owedTo branch of $or left out.
HasPaidOfDebtor(g, u) ==
  \E p \in Positions(groups[g]) :
     TxAt(groups[g], p).isPaid /\ TxAt(groups[g], p).owedBy = u

\* The filter of Group.find (server.js:222-229): some transaction of the
\* group is paid and has userId as owedBy or owedTo.
HasPaidOf(g, u) ==
  \E p \in Positions(groups[g]) :
     TxAt(groups[g], p).isPaid /\ Involves(TxAt(groups[g], p), u)

RECURSIVE TransactionsUpTo(_, _)
TransactionsUpTo(g, u) ==
  IF g = 0 THEN <<>>
  ELSE TransactionsUpTo(g - 1, u) \o
       (IF g \in DOMAIN groups /\ HasPaidOf(g, u)
        THEN HistoryEntries(FlatTxs(groups[g].events), u) ELSE <<>>)

\* The array the handler answers for userId u.
Transactions(u) == TransactionsUpTo(MaxGroups, u)

Count(seq, e) == Cardinality({i \in DOMAIN seq : seq[i] = e})

\* The stored transactions, each with its place.
Places == UNION {{<<g, p>> : p \in Positions(groups[g])} : g \in DOMAIN groups}

PlaceTx(x) == TxAt(groups[x[1]], x[2])

(* ---- C10 ----------------------------------------------------------------- *)
\* C10 (settlement records exactly once): for every user, the settlement
\* history holds one record for each stored paid transaction the user is a
\* party of and no other record: none for an unpaid transaction, never two
\* for one transaction.
C10_OneRecordPerPaid ==
  \A u \in users :
     /\ Len(Transactions(u)) =
          Cardinality({x \in Places : PlaceTx(x).isPaid /\ Involves(PlaceTx(x), u)})
     /\ \A x \in Places :
          Involves(PlaceTx(x), u) =>
            Count(Transactions(u), Entry(PlaceTx(x))) =
              Cardinality({y \in Places :
                 /\ PlaceTx(y).isPaid /\ Involves(PlaceTx(y), u)
                 /\ Entry(PlaceTx(y)) = Entry(PlaceTx(x))})

\* One event with a settled and an unsettled transaction of the same user.
C10_Witness ==
  \E x, y \in Places : \E r \in MarkPaidReqs :
     /\ x # y /\ PlaceTx(x).owedBy = PlaceTx(y).owedBy
     /\ PlaceTx(x).isPaid /\ ~PlaceTx(y).isPaid
     /\ reqs[r].status = 200 /\ <<reqs[r].gid, reqs[r].hit>> = x
     /\ Len(Transactions(PlaceTx(x).owedBy)) = 1

(* ---- C11 ----------------------------------------------------------------- *)
\* C11 (NotFound of MarkPaid): when a settlement request reads the store and
\* its group is absent or every stored transaction its key names is paid
\* (none at all when the event or the transaction is absent), it answers 404
\* and the step changes no debt, no group and no group list; a settlement
\* request that has answered 404 has applied no debt update.
C11_NotFoundNoEffect ==
  [][\A r \in ReqIds :
       (/\ reqs[r].op = "MarkPaid" /\ reqs[r].pc = "find"
        /\ reqs'[r] # reqs[r] /\ reqs'[r].err # "storage"
        /\ \/ reqs[r].gid \notin DOMAIN groups
           \/ \A p \in Named(reqs[r].gid, reqs[r].key) :
                 TxAt(groups[reqs[r].gid], p).isPaid)
       => /\ reqs'[r].status = 404
          /\ ~reqs'[r].applied /\ reqs'[r].hit = NoHit
          /\ debt' = debt /\ groups' = groups /\ userGroups' = userGroups]_vars

\* A settlement request answered 404 for the key of a transaction that an
\* earlier request had settled.
C11_Witness ==
  \E a, b \in MarkPaidReqs :
     /\ reqs[a].status = 200 /\ reqs[b].status = 404
     /\ reqs[a].gid = reqs[b].gid /\ reqs[a].key = reqs[b].key
     /\ Named(reqs[b].gid, reqs[b].key) = {reqs[a].hit}
     /\ Target(a).isPaid
     /\ debt[reqs[a].key.owedBy] = 0

(* ---- C12 ----------------------------------------------------------------- *)
\* C12 (AttachReceipt only on unpaid transactions): when an AttachReceipt
\* request reads the store and every stored transaction its key names is
\* paid, it answers 404 like a request whose key names none; and no step
\* changes the stored receipt of a transaction that is stored paid.
C12_ReceiptOnlyWhileUnpaid ==
  [][/\ \A r \in ReqIds :
          (/\ reqs[r].op = "AttachReceipt" /\ reqs[r].pc = "find"
           /\ reqs'[r] # reqs[r] /\ reqs'[r].err # "storage"
           /\ reqs[r].gid \in DOMAIN groups
           /\ \A p \in Named(reqs[r].gid, reqs[r].key) :
                 TxAt(groups[reqs[r].gid], p).isPaid)
          => reqs'[r].status = 404
     /\ \A g \in DOMAIN groups : \A p \in Positions(groups[g]) :
          TxAt(groups[g], p).isPaid =>
             Receipt(TxAt(groups'[g], p)) = Receipt(TxAt(groups[g], p))]_vars

(* ---- C13 ----------------------------------------------------------------- *)
\* C13 (recoverable intermediate state): with requests one after the other,
\* after an AttachReceipt request answered 200 for a transaction that is
\* still unpaid, the stored receipt of the transaction is the reference of
\* the newest such request, the debts are the accruals minus the settlements
\* applied, and a settlement request with the same key would find an unpaid
\* transaction.
C13_ReceiptKeptUntilPaid ==
  \A r \in ReqIds :
     (/\ reqs[r].op = "AttachReceipt" /\ reqs[r].status = 200
      /\ ~Target(r).isPaid)
     => /\ \E q \in ReqIds :
             /\ reqs[q].op = "AttachReceipt" /\ reqs[q].status = 200
             /\ reqs[q].gid = reqs[r].gid /\ reqs[q].hit = reqs[r].hit
             /\ \A x \in ReqIds :
                   (reqs[x].op = "AttachReceipt" /\ reqs[x].status = 200
                    /\ reqs[x].gid = reqs[r].gid /\ reqs[x].hit = reqs[r].hit) => x <= q
             /\ Receipt(Target(r)) = ReceiptRef(q)
        /\ \A u \in users : debt[u] = AccruedBy(u) - SettledBy(u)
        /\ FindUnpaid(groups[reqs[r].gid], reqs[r].key) # NoHit

(* ---- C14 ----------------------------------------------------------------- *)
\* C14 (CreateGroup all-or-nothing): of a CreateGroup request that ended
\* without success the store holds no group, no entry in a user's group list
\* and no debt increment.
C14_CreateGroupAllOrNothing ==
  \A r \in ReqIds :
     (reqs[r].op = "CreateGroup" /\ Done(r) /\ reqs[r].status # 201)
     => /\ reqs[r].gid \notin DOMAIN groups
        /\ \A u \in users :
             /\ reqs[r].gid \notin Range(userGroups[u])
             /\ Accrued(r, u) = 0

(* ---- C15 ----------------------------------------------------------------- *)
\* C15 (AddEvent validation): an AddEvent request on a stored group whose
\* event holds a transaction with amount <= 0 or with owedBy = owedTo ends
\* with 400 and with no accrual applied.
C15_AddEventValidated ==
  \A r \in ReqIds :
     (/\ reqs[r].op = "AddEvent" /\ reqs[r].gid \in DOMAIN groups
      /\ \E i \in DOMAIN reqs[r].events[1].transactions :
            LET tx == reqs[r].events[1].transactions[i]
            IN  tx.amount <= 0 \/ tx.owedBy = tx.owedTo)
     => (Done(r) => (reqs[r].status = 400 /\ \A u \in users : Accrued(r, u) = 0))

(* ---- C16 ----------------------------------------------------------------- *)
\* C16 (AddEvent on a missing group): when an AddEvent request reads the
\* store and no group has its groupId, it answers 404 with no accrual
\* applied, and the step changes no group, no debt and no group list,
\* whatever transactions its event holds.
C16_AddEventNotFound ==
  [][\A r \in ReqIds :
       (/\ reqs[r].op = "AddEvent" /\ reqs[r].pc = "find"
        /\ reqs'[r] # reqs[r] /\ reqs'[r].err # "storage"
        /\ reqs[r].gid \notin DOMAIN groups)
       => /\ reqs'[r].status = 404 /\ Done(r)'
          /\ reqs'[r].k = 0
          /\ debt' = debt /\ groups' = groups /\ userGroups' = userGroups]_vars

\* An event with a transaction of a signed-up debtor sent to a missing group
\* next to a stored one: answered 404, the debtor owes nothing.
C16_Witness ==
  \E r \in ReqIds :
     /\ reqs[r].op = "AddEvent" /\ reqs[r].status = 404
     /\ reqs[r].gid \notin DOMAIN groups /\ groups # <<>>
     /\ reqs[r].events[1].transactions # <<>>
     /\ reqs[r].events[1].transactions[1].owedBy \in users
     /\ reqs[r].events[1].transactions[1].amount = MaxAmount
     /\ debt[reqs[r].events[1].transactions[1].owedBy] = 0
     /\ \A g \in DOMAIN groups : groups[g].events = <<>>

(* ---- C17 ----------------------------------------------------------------- *)
\* C17 (create-group status contract): unless the store rejected an access,
\* a CreateGroup request that supplied the required fields ends with 201 and
\* a stored group whose groupId no other request got, with or without the
\* events field; a request that missed one ends with 400 and no groupId.
C17_CreateGroupStatus ==
  \A r \in ReqIds :
     (reqs[r].op = "CreateGroup" /\ Done(r) /\ reqs[r].err # "storage")
     => IF reqs[r].createdBy # 0
        THEN /\ reqs[r].status = 201
             /\ reqs[r].gid \in DOMAIN groups
             /\ \A q \in ReqIds \ {r} : reqs[q].op = "CreateGroup" => reqs[q].gid # reqs[r].gid
        ELSE /\ reqs[r].status = 400
             /\ reqs[r].gid = 0

(* ---- C18 ----------------------------------------------------------------- *)
\* C18 (membership normalised at creation): the member list of a group as
\* CreateGroup stored it (no later save has replaced it) holds no user twice
\* and holds the creator.
C18_MembersNormalised ==
  \A g \in DOMAIN groups :
     groups[g].v = 0 =>
        /\ \A i, j \in DOMAIN groups[g].members :
              groups[g].members[i] = groups[g].members[j] => i = j
        /\ groups[g].createdBy \in Range(groups[g].members)

(* ---- C19 ----------------------------------------------------------------- *)
\* C19 (CreateGroup validation): a CreateGroup request with all its fields
\* whose member list is empty, or whose events hold a transaction with
\* amount <= 0 or with owedBy = owedTo, stores no group and applies no
\* accrual, and ends with 400.
C19_CreateGroupValidated ==
  \A r \in ReqIds :
     (/\ reqs[r].op = "CreateGroup" /\ reqs[r].gid # 0
      /\ \/ reqs[r].members = <<>>
         \/ \E i \in DOMAIN FlatTxs(reqs[r].events) :
               LET tx == FlatTxs(reqs[r].events)[i]
               IN  tx.amount <= 0 \/ tx.owedBy = tx.owedTo)
     => /\ reqs[r].gid \notin DOMAIN groups
        /\ \A u \in users : Accrued(r, u) = 0
        /\ Done(r) => reqs[r].status = 400

(* ---- C20 ----------------------------------------------------------------- *)
\* C20 (UpdateMembers replaces verbatim): with requests one after the other,
\* when an UpdateMembers request answers 200 the stored member list of its
\* group is the submitted list, and when it reads the store and no group has
\* its groupId it answers 404 and the step changes no group, no debt and no
\* group list.
C20_MembersReplaced ==
  [][\A r \in ReqIds :
       (reqs'[r].op = "UpdateMembers" /\ reqs'[r] # reqs[r])
       => /\ reqs'[r].status = 200 =>
               /\ reqs[r].gid \in DOMAIN groups'
               /\ groups'[reqs[r].gid].members = reqs[r].members
          /\ (reqs[r].pc = "find" /\ reqs[r].gid \notin DOMAIN groups) =>
               /\ reqs'[r].status = 404
               /\ groups' = groups /\ debt' = debt /\ userGroups' = userGroups]_vars

\* A group created with one member whose list was replaced by another user.
C20_Witness ==
  \E r, c \in ReqIds :
     /\ reqs[r].op = "UpdateMembers" /\ reqs[r].status = 200
     /\ reqs[c].op = "CreateGroup" /\ reqs[c].gid = reqs[r].gid
     /\ reqs[c].members # <<>> /\ reqs[r].members # <<>>
     /\ reqs[c].members # reqs[r].members
     /\ groups[reqs[r].gid].members = reqs[r].members
     /\ groups[reqs[r].gid].v = 1

(* ---- C21 ----------------------------------------------------------------- *)
\* C21 (settlement history content): in every state and for every userId,
\* the array GET /api/transactions answers holds as many entries as there
\* are stored paid transactions with the user as owedBy or owedTo, every
\* entry is the entry of one of them, and each of them has its entry as
\* often as there are such transactions with the same entry; unpaid
\* transactions and transactions of other users have none.
C21_HistoryContent ==
  \A u \in UserIds :
     LET paid == {x \in Places : PlaceTx(x).isPaid /\ Involves(PlaceTx(x), u)}
         hist == Transactions(u)
     IN  /\ Len(hist) = Cardinality(paid)
         /\ \A i \in DOMAIN hist : \E x \in paid : hist[i] = Entry(PlaceTx(x))
         /\ \A x \in paid :
               Count(hist, Entry(PlaceTx(x))) =
                 Cardinality({y \in paid : Entry(PlaceTx(y)) = Entry(PlaceTx(x))})

\* The creditor of a settled transaction, who also has an unsettled one in
\* another event of the group, has one entry.
C21_Witness ==
  \E x, y \in Places : \E u \in users :
     /\ PlaceTx(x).isPaid /\ PlaceTx(x).owedTo = u /\ PlaceTx(x).owedBy # u
     /\ ~PlaceTx(y).isPaid /\ Involves(PlaceTx(y), u)
     /\ x[2][1] # y[2][1]
     /\ Len(Transactions(u)) = 1
     /\ Len(Transactions(PlaceTx(x).owedBy)) >= 1

\* The index in the array of GET /api/transactions for userId u at which the
\* entry of the stored paid transaction at place x stands: the loops of
\* server.js:232-247 push in the order of groups, events and transactions.
RecordIndex(u, x) ==
  1 + Cardinality({y \in Places :
        /\ PlaceTx(y).isPaid /\ Involves(PlaceTx(y), u)
        /\ (y[1] < x[1] \/ (y[1] = x[1] /\ Before(y[2], x[2])))})

(* ---- C22 ----------------------------------------------------------------- *)
\* C22 (settlement history ordering): when a settlement request flips a
\* transaction to paid after another request has settled another
\* transaction, the entry of the transaction settled later stands before the
\* entry of the one settled earlier in the history of every user who is a
\* party of both.
C22_NewestFirst ==
  [][\A a, b \in ReqIds :
       (/\ a # b
        /\ reqs[a].op = "MarkPaid" /\ reqs[a].status = 200
        /\ reqs[b].op = "MarkPaid" /\ reqs[b].pc = "save" /\ reqs'[b].status = 200
        /\ <<reqs[a].gid, reqs[a].hit>> # <<reqs[b].gid, reqs[b].hit>>)
       => \A u \in users :
             (Involves(Target(a), u) /\ Involves(Target(b), u)) =>
                /\ Transactions(u)'[RecordIndex(u, <<reqs[b].gid, reqs[b].hit>>)']
                     = Entry(Target(b))
                /\ RecordIndex(u, <<reqs[b].gid, reqs[b].hit>>)'
                     < RecordIndex(u, <<reqs[a].gid, reqs[a].hit>>)']_vars

\* Logical time, new Date() on the server: the number of requests that have
\* arrived.  The timestamp of a transaction is the one its client submitted.
Now == Cardinality({r \in ReqIds : Started(r)})

(* ---- C23 ----------------------------------------------------------------- *)
\* C23 (settlement timestamp): when a settlement request flips to paid a
\* transaction whose timestamp lies before the time of the flip, the entry
\* of the transaction in the history of each of its parties carries the
\* time of the flip.
C23_RecordShowsSettlementTime ==
  [][\A b \in ReqIds :
       (/\ reqs[b].op = "MarkPaid" /\ reqs[b].pc = "save" /\ reqs'[b].status = 200
        /\ ~Target(b).isPaid
        /\ Target(b).timestamp < Now)
       => \A u \in users :
             Involves(Target(b), u) =>
                Transactions(u)'[RecordIndex(u, <<reqs[b].gid, reqs[b].hit>>)'].paymentTimestamp
                  = Now]_vars

(* ---- C24 ----------------------------------------------------------------- *)
\* C24 (settlement snapshot): the entry of a settled transaction in the
\* history of each of its parties carries the amount, owedBy, owedTo and
\* reason of the transaction and the currency of its owedBy user.
C24_RecordSnapshot ==
  \A r \in MarkPaidReqs :
     reqs[r].status = 200 =>
        \A u \in users :
           Involves(Target(r), u) =>
              LET rec == Transactions(u)[RecordIndex(u, <<reqs[r].gid, reqs[r].hit>>)]
              IN  /\ rec.amount = Target(r).amount
                  /\ rec.owedBy = Target(r).owedBy
                  /\ rec.owedTo = Target(r).owedTo
                  /\ rec.reason = Target(r).reason
                  /\ rec.currency = Currency(Target(r).owedBy)

(* ---- group.html renderGroups (group.html:41-122) -------------------------- *)
\* GET /api/groupsForUser (server.js:138-153): the groups userId created or
\* is a member of.
GroupsForUser(v) ==
  {g \in DOMAIN groups : groups[g].createdBy = v \/ v \in Range(groups[g].members)}

RECURSIVE RenderTxsInvolved(_, _)
\* RenderTxs with the isUnpaid test of the button left out.
RenderTxsInvolved(txs, v) ==
  IF txs = <<>> THEN <<>>
  ELSE <<[class |-> IF Head(txs).isPaid THEN "paid" ELSE "",
          button |-> Involves(Head(txs), v)]>> \o RenderTxsInvolved(Tail(txs), v)

RECURSIVE RenderTxs(_, _)
\* The list items the page builds for the transactions of a group, in the
\* order of its loops (group.html:69-90): the class of the item and whether
\* it holds the "Mark as Paid" button.
RenderTxs(txs, v) ==
  IF txs = <<>> THEN <<>>
  ELSE <<[class |-> IF Head(txs).isPaid THEN "paid" ELSE "",
          button |-> ~Head(txs).isPaid /\ Involves(Head(txs), v)]>>
       \o RenderTxs(Tail(txs), v)

(* ---- C25 ----------------------------------------------------------------- *)
\* C25 (settle exposure): in the page rendered for user v, every stored
\* transaction of every group of v has one list item, and the item holds the
\* "Mark as Paid" button exactly when the transaction is unpaid and v is its
\* owedBy or its owedTo.
C25_SettleOffered ==
  \A v \in users : \A g \in GroupsForUser(v) :
     LET txs   == FlatTxs(groups[g].events)
         items == RenderTxs(txs, v)
     IN  /\ Len(items) = Len(txs)
         /\ \A i \in DOMAIN txs :
              /\ txs[i].isPaid => ~items[i].button
              /\ (txs[i].owedBy # v /\ txs[i].owedTo # v) => ~items[i].button
              /\ (~txs[i].isPaid /\ (txs[i].owedBy = v \/ txs[i].owedTo = v))
                    => items[i].button

\* The creator's page of a group with a settled and an unsettled transaction
\* of the creator: one button.
C25_Witness ==
  \E v \in users : \E g \in GroupsForUser(v) :
     LET txs   == FlatTxs(groups[g].events)
         items == RenderTxs(txs, v)
     IN  /\ Len(txs) = 2
         /\ txs[1].isPaid /\ Involves(txs[1], v) /\ ~items[1].button
         /\ ~txs[2].isPaid /\ Involves(txs[2], v) /\ items[2].button
         /\ \E u \in users : u # v /\ g \notin GroupsForUser(u) /\ Involves(txs[2], u)

(* ---- C26 ----------------------------------------------------------------- *)
\* C26 (transactions persist until their group is deleted): a step removes
\* a row of Transaction only if it deletes the group of the row, and a step
\* that deletes a group leaves no event and no transaction of that group.
C26_GoneOnlyWithGroup ==
  [][/\ \A t \in sql.tx :
          (\A n \in sql'.tx : n.transaction_id # t.transaction_id)
          => (t.group_name \in sql.grp /\ t.group_name \notin sql'.grp)
     /\ \A g \in sql.grp \ sql'.grp :
          /\ \A e \in sql'.event : e[1] # g
          /\ \A n \in sql'.tx : n.group_name # g]_vars

\* Two transactions were inserted in two groups and one group was deleted:
\* the settled transaction of the other group and its PaidTransaction row
\* are still there.
C26_Witness ==
  /\ sql.nextId = 3
  /\ Cardinality(sql.grp) = 1 /\ Cardinality(sql.event) = 1
  /\ \E t \in sql.tx :
        /\ sql.tx = {t} /\ t.group_name \in sql.grp /\ t.is_paid
        /\ \E p \in sql.paid : sql.paid = {p} /\ p.transaction_id = t.transaction_id

(* ---- GET /api/profile (server.js:110-125) --------------------------------- *)
StartProfile(r) ==
  /\ NewReq(r)
  /\ \E u \in UserIds :
       SetReq(r, [IdleReq EXCEPT !.op = "Profile", !.pc = "find", !.userId = u])
  /\ UNCHANGED <<users, debt, userGroups, groups>>

\* The fields of the User document the ledger is about.
UserDoc(u) ==
  [userId |-> u, currency |-> Currency(u), groups |-> userGroups[u], debt |-> debt[u]]

\* ProfileFind storing the debt recomputed from the unpaid transactions.
ProfileFindRecomputed(r) ==
  /\ reqs[r].op = "Profile" /\ reqs[r].pc = "find"
  /\ IF reqs[r].userId \notin users
     THEN SetReq(r, Respond(reqs[r], 404)) /\ UNCHANGED debt
     ELSE /\ debt' = [debt EXCEPT ![reqs[r].userId] = Owed(reqs[r].userId)]
          /\ SetReq(r, Reply(reqs[r], 200, [UserDoc(reqs[r].userId) EXCEPT
                                              !.debt = debt'[reqs[r].userId]]))
  /\ UNCHANGED <<users, userGroups, groups>>

\* await User.findOne({ userId }), the 404, res.json(user)
ProfileFind(r) ==
  /\ reqs[r].op = "Profile" /\ reqs[r].pc = "find"
  /\ IF reqs[r].userId \notin users
     THEN SetReq(r, Respond(reqs[r], 404))
     ELSE SetReq(r, Reply(reqs[r], 200, UserDoc(reqs[r].userId)))
  /\ UNCHANGED <<users, debt, userGroups, groups>>

(* ---- GET /api/group/:groupId (server.js:127-136) -------------------------- *)
StartGroupView(r) ==
  /\ NewReq(r)
  /\ \E gid \in TargetGroups :
       SetReq(r, [IdleReq EXCEPT !.op = "GroupView", !.pc = "find", !.gid = gid])
  /\ UNCHANGED <<users, debt, userGroups, groups>>

\* await Group.findOne({ groupId }), the 404, res.json(group)
GroupViewFind(r) ==
  /\ reqs[r].op = "GroupView" /\ reqs[r].pc = "find"
  /\ IF reqs[r].gid \notin DOMAIN groups
     THEN SetReq(r, Respond(reqs[r], 404))
     ELSE SetReq(r, Reply(reqs[r], 200, groups[reqs[r].gid]))
  /\ UNCHANGED <<users, debt, userGroups, groups>>

(* ---- GET /api/groupsForUser (server.js:138-153) --------------------------- *)
StartGroupsForUser(r) ==
  /\ NewReq(r)
  /\ \/ \* userId is missing: 400 (server.js:140)
        SetReq(r, Respond([IdleReq EXCEPT !.op = "GroupsForUser"], 400))
     \/ \E u \in UserIds :
          SetReq(r, [IdleReq EXCEPT !.op = "GroupsForUser", !.pc = "find", !.userId = u])
  /\ UNCHANGED <<users, debt, userGroups, groups>>

\* await Group.find({ $or: [...] }), res.json(groups)
GroupsForUserFind(r) ==
  /\ reqs[r].op = "GroupsForUser" /\ reqs[r].pc = "find"
  /\ SetReq(r, Reply(reqs[r], 200, {groups[g] : g \in GroupsForUser(reqs[r].userId)}))
  /\ UNCHANGED <<users, debt, userGroups, groups>>

(* ---- GET /api/transactions as a request (server.js:220-250) -------------- *)
StartTransactions(r) ==
  /\ NewReq(r)
  /\ \E u \in UserIds :
       SetReq(r, [IdleReq EXCEPT !.op = "Transactions", !.pc = "find", !.userId = u])
  /\ UNCHANGED <<users, debt, userGroups, groups>>

\* await Group.find(...), the loops, res.json(result)
TransactionsFind(r) ==
  /\ reqs[r].op = "Transactions" /\ reqs[r].pc = "find"
  /\ SetReq(r, Reply(reqs[r], 200, Transactions(reqs[r].userId)))
  /\ UNCHANGED <<users, debt, userGroups, groups>>

\* Group.find rejects: the handler has no try/catch, so its promise rejects.
\* A router that ignores the promise of a handler sends nothing; one that
\* forwards a rejection to its error handler answers 500.  The source does
\* not fix the router's version, so either can happen.
TransactionsRejected(r) ==
  /\ reqs[r].op = "Transactions" /\ reqs[r].pc = "find"
  /\ \/ SetReq(r, [reqs[r] EXCEPT !.pc = "rejected", !.err = "storage"])
     \/ SetReq(r, Throw(reqs[r], "storage"))
  /\ UNCHANGED <<users, debt, userGroups, groups>>

ReadOps == {"Profile", "GroupView", "GroupsForUser", "Transactions"}

StartRead(r) ==
  \/ StartProfile(r) \/ StartGroupView(r) \/ StartGroupsForUser(r)
  \/ StartTransactions(r)

ReadStep(r) ==
  \/ ProfileFind(r) \/ GroupViewFind(r) \/ GroupsForUserFind(r)
  \/ TransactionsFind(r)

\* The read handlers next to group creation and settlement, concurrent
\* requests, storage failures.
NextRead ==
  \/ Signup
  \/ \E r \in ReqIds :
        StartCreateGroup(r, MemberInputs(users), EventInputs(users, {MaxAmount}, {FALSE}, 1))
  \/ \E r \in ReqIds : StartMarkPaid(r)
  \/ \E r \in ReqIds : StartRead(r)
  \/ \E r \in ReqIds :
        \/ CreateGroupSave(r) \/ CreateGroupUpdateMany(r) \/ CreateGroupInc(r)
        \/ MarkPaidFind(r) \/ MarkPaidInc(r) \/ MarkPaidSave(r)
  \/ \E r \in ReqIds : ReadStep(r)
  \/ \E r \in ReqIds : StorageFailure(r)
  \/ \E r \in ReqIds : TransactionsRejected(r)

SpecRead == Init /\ [][NextRead]_vars

(* ---- C27 ----------------------------------------------------------------- *)
\* C27 (reads are pure): a step of a profile, group-view, groups-for-user or
\* settlement-history request changes no user, no debt, no group list and no
\* group; and a profile request that reads the store answers 200 with the
\* stored debt of the user, or 404 when there is no such user.
C27_ReadsArePure ==
  [][\A r \in ReqIds :
       (reqs'[r].op \in ReadOps /\ reqs'[r] # reqs[r])
       => /\ users' = users /\ debt' = debt
          /\ userGroups' = userGroups /\ groups' = groups
          /\ (reqs[r].op = "Profile" /\ reqs[r].pc = "find"
                /\ reqs'[r].err # "storage") =>
                IF reqs[r].userId \in users
                THEN /\ reqs'[r].status = 200
                     /\ reqs'[r].body[1].debt = debt[reqs[r].userId]
                ELSE reqs'[r].status = 404]_vars

\* A profile answered while the accrual of a stored transaction of the user
\* was still to come: the body shows the stored debt, 0, and the accrual
\* has been applied once since.
C27_Witness ==
  \E r, c \in ReqIds :
     /\ reqs[r].op = "Profile" /\ reqs[r].status = 200
     /\ reqs[r].body[1].debt = 0
     /\ reqs[c].op = "CreateGroup" /\ reqs[c].status = 201 /\ c < r
     /\ debt[reqs[r].userId] = MaxAmount
     /\ Owed(reqs[r].userId) = MaxAmount

(* ---- C28 ----------------------------------------------------------------- *)
\* C28 (receipt is advisory): with requests one after the other, a
\* settlement request whose key names a stored unpaid transaction stops at
\* such a transaction, lowers the debt of its owedBy by the amount, stores
\* the transaction paid and answers 200, whether or not an AttachReceipt
\* request came before.
C28_SettlesWithoutReceipt ==
  [][\A r \in ReqIds :
       (reqs[r].op = "MarkPaid" /\ reqs'[r] # reqs[r]) =>
          /\ (/\ reqs[r].pc = "find" /\ reqs[r].gid \in DOMAIN groups
               /\ \E p \in Named(reqs[r].gid, reqs[r].key) :
                     ~TxAt(groups[reqs[r].gid], p).isPaid)
              => /\ reqs'[r].pc = "inc"
                 /\ reqs'[r].hit \in Named(reqs[r].gid, reqs[r].key)
                 /\ ~TxAt(groups[reqs[r].gid], reqs'[r].hit).isPaid
          /\ reqs[r].pc = "inc"
              => \A u \in users :
                    debt'[u] = debt[u] - (IF u = Target(r).owedBy THEN Target(r).amount ELSE 0)
          /\ reqs[r].pc = "save"
              => /\ reqs'[r].status = 200
                 /\ TxAt(groups'[reqs[r].gid], reqs[r].hit).isPaid]_vars

\* A transaction settled with no AttachReceipt request ever made.
C28_Witness ==
  /\ \A q \in ReqIds : reqs[q].op # "AttachReceipt"
  /\ \E r \in MarkPaidReqs :
        /\ reqs[r].status = 200 /\ Target(r).isPaid
        /\ Target(r).amount = MaxAmount
        /\ Target(r).owedBy # Target(r).owedTo
        /\ debt[Target(r).owedBy] = 0

(* ---- C29 ----------------------------------------------------------------- *)
\* C29 (every request is answered): a request during which a store access
\* failed has its response; no request is left without one.
C29_FailedRequestAnswered ==
  \A r \in ReqIds : reqs[r].err = "storage" => reqs[r].status # 0

(* ---- C30 ----------------------------------------------------------------- *)
\* C30 (transactions enter the ledger unpaid): every stored transaction that
\* is paid was flipped by a settlement request that answered 200; none is
\* stored paid by group creation or by the addition of an event.
C30_PaidOnlyByMarkPaid ==
  \A g \in DOMAIN groups : \A p \in Positions(groups[g]) :
     TxAt(groups[g], p).isPaid
     => \E r \in MarkPaidReqs :
           reqs[r].gid = g /\ reqs[r].hit = p /\ reqs[r].status = 200

(* ---- C31 ----------------------------------------------------------------- *)
\* The fields of a stored transaction that no handler assigns.
Fixed(tx) ==
  [owedBy |-> tx.owedBy, owedTo |-> tx.owedTo, reason |-> tx.reason,
   amount |-> tx.amount, timestamp |-> tx.timestamp]

\* C31 (transactions are immutable apart from settlement): no step removes a
\* group, an event or a transaction, moves a transaction to another place, or
\* changes the name of its event or its owedBy, owedTo, reason, amount or
\* timestamp; only isPaid may change.
C31_TxImmutable ==
  [][\A g \in DOMAIN groups :
       /\ g \in DOMAIN groups'
       /\ Len(groups'[g].events) >= Len(groups[g].events)
       /\ \A i \in 1..Len(groups[g].events) :
             /\ groups'[g].events[i].eventName = groups[g].events[i].eventName
             /\ Len(groups'[g].events[i].transactions) = Len(groups[g].events[i].transactions)
             /\ \A j \in 1..Len(groups[g].events[i].transactions) :
                   Fixed(groups'[g].events[i].transactions[j])
                     = Fixed(groups[g].events[i].transactions[j])]_vars

\* A transaction that was settled, in a group that got a second event and a
\* new member list afterwards.
C31_Witness ==
  \E r \in MarkPaidReqs :
     /\ reqs[r].status = 200 /\ Target(r).isPaid
     /\ \E a \in ReqIds :
           /\ a > r /\ reqs[a].op = "AddEvent" /\ reqs[a].status = 200
           /\ reqs[a].gid = reqs[r].gid
           /\ Len(groups[reqs[r].gid].events) = 2

(* ---- C32 ----------------------------------------------------------------- *)
RECURSIVE SumRows(_)
\* select sum(amount) from Transaction over a set of rows
SumRows(rows) ==
  IF rows = {} THEN 0
  ELSE LET t == CHOOSE t \in rows : TRUE
       IN  t.amount + SumRows(rows \ {t})

\* The unpaid amount of the rows of Transaction that name u as owed_by.
SqlOwed(db, u) == SumRows({t \in db.tx : t.owed_by = u /\ ~t.is_paid})

\* C32 (group deletion keeps the debt invariant): in the MySQL store the
\* debt of every user is the sum of the amounts of the unpaid transactions
\* the user owes, also after a group with unpaid transactions was deleted.
C32_SqlDebtInvariant ==
  \A u \in sql.user : sql.debt[u] = SqlOwed(sql, u)

(* ---- C33 ----------------------------------------------------------------- *)
\* C33 (the settlement history is append-only): a row of PaidTransaction,
\* once inserted, is there with the same amount, parties and reason after
\* every later statement.
C33_HistoryAppendOnly ==
  [][\A p \in sql.paid : p \in sql'.paid]_vars

(* ---- receipt_upload.html: uploadReceipt (receipt_upload.html:57-105) ------- *)
\* group.html opens the window with the key of a transaction in its URL
\* (group.html:171-174, receipt_upload.html:19-24).  Windows are numbered in
\* the order they are opened.
PageOpen(w) ==
  /\ page[w].pc = "new" /\ \A v \in Windows : v < w => page[v].pc # "new"
  /\ \E gid \in TargetGroups : \E key \in KeysFor(gid) :
        page' = [page EXCEPT ![w] = [NewPage EXCEPT !.pc = "open", !.gid = gid, !.key = key]]
  /\ UNCHANGED <<users, debt, userGroups, groups, reqs, sql>>

\* Step 1: a file was chosen, fetch('/api/uploadReceiptOnly') is sent
\* (receipt_upload.html:66-79).  Without a file the function returns at once.
PageUpload(w) ==
  /\ page[w].pc = "open"
  /\ \E r \in ReqIds :
        /\ NewReq(r)
        /\ reqs' = [reqs EXCEPT ![r] = [IdleReq EXCEPT !.op = "AttachReceipt", !.pc = "find",
                                         !.gid = page[w].gid, !.key = page[w].key]]
        /\ page' = [page EXCEPT ![w].pc = "uploading", ![w].up = r]
  /\ UNCHANGED <<users, debt, userGroups, groups, sql>>

\* PageUploaded with the test of uploadRes.ok left out.
PageUploadedAlways(w) ==
  /\ page[w].pc = "uploading" /\ Done(page[w].up)
  /\ \E r \in ReqIds :
        /\ NewReq(r)
        /\ reqs' = [reqs EXCEPT ![r] = [IdleReq EXCEPT !.op = "MarkPaid", !.pc = "find",
                                         !.gid = page[w].gid, !.key = page[w].key]]
        /\ page' = [page EXCEPT ![w].pc = "marking", ![w].mark = r]
  /\ UNCHANGED <<users, debt, userGroups, groups, sql>>

\* The response of step 1 is there (receipt_upload.html:81-92): if it is not
\* ok the function alerts and returns; if it is, step 2 sends
\* fetch('/api/markTransactionPaid') with the same key.
PageUploaded(w) ==
  /\ page[w].pc = "uploading" /\ Done(page[w].up)
  /\ IF reqs[page[w].up].status = 200
     THEN \E r \in ReqIds :
            /\ NewReq(r)
            /\ reqs' = [reqs EXCEPT ![r] = [IdleReq EXCEPT !.op = "MarkPaid", !.pc = "find",
                                             !.gid = page[w].gid, !.key = page[w].key]]
            /\ page' = [page EXCEPT ![w].pc = "marking", ![w].mark = r]
     ELSE /\ page' = [page EXCEPT ![w].pc = "failed"]
          /\ UNCHANGED reqs
  /\ UNCHANGED <<users, debt, userGroups, groups, sql>>

\* The response of step 2 is there (receipt_upload.html:94-100): the window
\* closes on ok, alerts otherwise.
PageMarked(w) ==
  /\ page[w].pc = "marking" /\ Done(page[w].mark)
  /\ page' = [page EXCEPT ![w].pc = IF reqs[page[w].mark].status = 200
                                    THEN "closed" ELSE "failed"]
  /\ UNCHANGED <<users, debt, userGroups, groups, reqs, sql>>

\* A fetch rejects (the connection drops): the catch of
\* receipt_upload.html:101-104 alerts and the function is over.
PageFetchRejected(w) ==
  /\ page[w].pc \in {"uploading", "marking"}
  /\ page' = [page EXCEPT ![w].pc = "failed"]
  /\ UNCHANGED <<users, debt, userGroups, groups, reqs, sql>>

\* Group creation next to the receipt-upload windows, which are the only
\* senders of receipt and settlement requests; storage failures.
NextClient ==
  \/ Signup
  \/ \E r \in ReqIds :
        StartCreateGroup(r, {<<>>}, EventInputs(users, {MaxAmount}, {FALSE}, 1))
  \/ \E r \in ReqIds :
        \/ CreateGroupSave(r) \/ CreateGroupUpdateMany(r) \/ CreateGroupInc(r)
        \/ AttachReceiptFind(r) \/ AttachReceiptSave(r)
        \/ MarkPaidFind(r) \/ MarkPaidInc(r) \/ MarkPaidSave(r)
  \/ \E w \in Windows :
        \/ PageOpen(w) \/ PageUpload(w) \/ PageUploaded(w) \/ PageMarked(w)
        \/ PageFetchRejected(w)
  \/ \E r \in ReqIds : StorageFailure(r)

SpecClient == Init /\ [][NextClient]_vars

(* ---- C34 ----------------------------------------------------------------- *)
\* C34 (client settlement workflow ordering): every settlement request was
\* sent by a window after its receipt request for the same key had answered
\* 200; a window whose receipt request answered anything else sends no
\* settlement request; and a step that stores a transaction as paid or
\* lowers a debt is a step of the settlement request of a window whose
\* receipt request answered 200.
C34_MarkAfterReceipt ==
  /\ [](\A r \in MarkPaidReqs : \E w \in Windows :
           /\ page[w].mark = r /\ page[w].up # 0 /\ page[w].up < r
           /\ reqs[page[w].up].op = "AttachReceipt"
           /\ reqs[page[w].up].status = 200
           /\ reqs[page[w].up].gid = reqs[r].gid
           /\ reqs[page[w].up].key = reqs[r].key)
  /\ [](\A w \in Windows :
           (page[w].up # 0 /\ Done(page[w].up) /\ reqs[page[w].up].status # 200)
           => page[w].mark = 0)
  /\ [][(\/ \E u \in UserIds : debt'[u] < debt[u]
          \/ \E g \in DOMAIN groups : \E p \in Positions(groups[g]) :
                ~TxAt(groups[g], p).isPaid /\ TxAt(groups'[g], p).isPaid)
        => \E w \in Windows :
              /\ page[w].mark # 0 /\ reqs[page[w].up].status = 200
              /\ reqs'[page[w].mark] # reqs[page[w].mark]]_vars

\* A window whose receipt request answered 200 and whose settlement request
\* answered 200 afterwards: the transaction is paid, the debt is settled.
C34_Witness ==
  \E w \in Windows :
     /\ page[w].pc = "closed"
     /\ reqs[page[w].up].status = 200 /\ reqs[page[w].mark].status = 200
     /\ Target(page[w].mark).isPaid
     /\ debt[Target(page[w].mark).owedBy] = 0

(* ---- C35 ----------------------------------------------------------------- *)
\* C35 (a successful settlement settles one transaction): with requests one
\* after the other, a settlement request stops at the first stored unpaid
\* transaction its key names and changes nothing while it searches; its debt
\* update lowers the debt of that transaction's owedBy by that transaction's
\* amount and changes no other debt and no group; its save, answered 200,
\* turns that one transaction from unpaid to paid and changes no other
\* transaction, no event, no member list and no debt.
C35_SettlesOne ==
  [][\A r \in ReqIds :
       (reqs[r].op = "MarkPaid" /\ reqs'[r] # reqs[r]) =>
          /\ users' = users /\ userGroups' = userGroups
          /\ reqs[r].pc = "find"
              => /\ groups' = groups /\ debt' = debt
                 /\ reqs'[r].pc = "inc"
                     => \A q \in Named(reqs[r].gid, reqs[r].key) :
                           ~TxAt(groups[reqs[r].gid], q).isPaid
                           => (q = reqs'[r].hit \/ Before(reqs'[r].hit, q))
          /\ reqs[r].pc = "inc"
              => /\ groups' = groups
                 /\ \A u \in UserIds :
                       debt'[u] = IF u = Target(r).owedBy
                                  THEN debt[u] - Target(r).amount ELSE debt[u]
          /\ reqs[r].pc = "save"
              => /\ reqs'[r].status = 200
                 /\ debt' = debt
                 /\ DOMAIN groups' = DOMAIN groups
                 /\ \A g \in DOMAIN groups :
                       /\ groups'[g].members = groups[g].members
                       /\ Positions(groups'[g]) = Positions(groups[g])
                       /\ \A p \in Positions(groups[g]) :
                             IF g = reqs[r].gid /\ p = reqs[r].hit
                             THEN /\ ~TxAt(groups[g], p).isPaid
                                  /\ TxAt(groups'[g], p).isPaid
                                  /\ Fixed(TxAt(groups'[g], p)) = Fixed(TxAt(groups[g], p))
                             ELSE TxAt(groups'[g], p) = TxAt(groups[g], p)]_vars

\* Two unpaid transactions of one group had the same key; one settlement
\* answered 200: the first is paid, the second is not, and the debt of their
\* owedBy is the amount of the second.
C35_Witness ==
  \E r \in MarkPaidReqs :
     /\ reqs[r].status = 200
     /\ Cardinality(Named(reqs[r].gid, reqs[r].key)) = 2
     /\ \A q \in Named(reqs[r].gid, reqs[r].key) :
           TxAt(groups[reqs[r].gid], q).isPaid <=> q = reqs[r].hit
     /\ \E q \in Named(reqs[r].gid, reqs[r].key) :
           /\ Before(reqs[r].hit, q)
           /\ debt[reqs[r].key.owedBy] = TxAt(groups[reqs[r].gid], q).amount

(* ---- C36 ----------------------------------------------------------------- *)
\* C36 (a receipt upload never settles): no step of a receipt request,
\* whatever it answers, changes the debt of a user, the member list of a
\* group or the isPaid flag of a stored transaction.
C36_ReceiptSettlesNothing ==
  [][\A r \in ReqIds :
       (reqs'[r].op = "AttachReceipt" /\ reqs'[r] # reqs[r]) =>
          /\ debt' = debt
          /\ DOMAIN groups' = DOMAIN groups
          /\ \A g \in DOMAIN groups :
                /\ groups'[g].members = groups[g].members
                /\ Positions(groups'[g]) = Positions(groups[g])
                /\ \A p \in Positions(groups[g]) :
                      TxAt(groups'[g], p).isPaid = TxAt(groups[g], p).isPaid]_vars

\* One receipt request answered 200 and another one failed: the transaction
\* of the first is unpaid and its amount is still owed.
C36_Witness ==
  \E a, b \in ReqIds :
     /\ reqs[a].op = "AttachReceipt" /\ reqs[a].status = 200
     /\ reqs[b].op = "AttachReceipt" /\ reqs[b].status \in {404, 500}
     /\ ~Target(a).isPaid
     /\ Target(a).amount = MaxAmount
     /\ debt[Target(a).owedBy] = MaxAmount

(* ---- C37 ----------------------------------------------------------------- *)
\* Group creation and settlement, one request at a time, every submitted
\* amount positive; a store access may fail.
NextSerialFail ==
  \/ Signup
  \/ \E r \in ReqIds :
        /\ Quiescent
        /\ \/ StartCreateGroup(r, {<<>>}, EventInputs(users, Amounts, {FALSE}, 1))
           \/ StartMarkPaid(r)
  \/ \E r \in ReqIds :
        \/ CreateGroupSave(r) \/ CreateGroupUpdateMany(r) \/ CreateGroupInc(r)
        \/ MarkPaidFind(r) \/ MarkPaidInc(r) \/ MarkPaidSave(r)
  \/ \E r \in ReqIds : StorageFailure(r)

SpecSerialFail == Init /\ [][NextSerialFail]_vars

\* C37 (non-negative debt under serial execution): with requests served one
\* at a time and positive amounts only, the debt of no user is ever below 0.
C37_DebtNonNegative ==
  \A u \in users : debt[u] >= 0

(* ---- C38 ----------------------------------------------------------------- *)
\* C38 (event names are unique within a group): no stored group holds two
\* events with the same eventName.
C38_EventNamesUnique ==
  \A g \in DOMAIN groups : \A i, j \in DOMAIN groups[g].events :
     groups[g].events[i].eventName = groups[g].events[j].eventName => i = j

====
